---- MODULE Spec2Model ----
(***************************************************************************)
(* Model of boltzmann_matchN_v1_0.py: rejection sampling of energy         *)
(* configurations of N freely drawn molecules plus one closing molecule    *)
(* whose energy is matched so that the total energy is E_total.            *)
(*                                                                         *)
(* The script is straight-line module-level code.  Its parameters are      *)
(* edited in the source (lines 30-37 and the suggestions at lines 89-109), *)
(* so the model draws them from bounded sets in Init.  One step of the     *)
(* model is one iteration of the trial loop (lines 45-55) or the whole     *)
(* evaluation block after the loop (lines 57-69).  The plotting calls are  *)
(* not modelled: they only read pop and E_levels.                          *)
(*                                                                         *)
(* numpy arrays are 0-indexed: E_levels and stat are functions on          *)
(* 0..Size-1.  E_select and E_select_fill are TLA+ sequences whose         *)
(* elements are 0-based indices into E_levels.                             *)
(***************************************************************************)
EXTENDS Integers, Sequences, FiniteSets

VARIABLES Trials, N, E_total, E_min, E_max,
          k, E_select, E_missing, E_select_fill, stat, count,
          pc, err, pop, E_tot_avg, E_mol_avg, E_mol_std,
          run2

params == <<Trials, N, E_total, E_min, E_max>>
loopvars == <<k, E_select, E_missing, E_select_fill, stat, count>>
outvars == <<pop, E_tot_avg, E_mol_avg, E_mol_std>>
vars == <<Trials, N, E_total, E_min, E_max,
          k, E_select, E_missing, E_select_fill, stat, count,
          pc, err, pop, E_tot_avg, E_mol_avg, E_mol_std, run2>>

(* ---- bounds of the model ---------------------------------------------- *)
MaxTrials == 2
MaxN == 2
MaxLevel == 2
MaxTotal == 5

(* ---- the level space (line 38) ---------------------------------------- *)

\* mutant: np.arange(E_min, E_max+2), one level too many
Size_wide == IF E_max + 2 - E_min > 0 THEN E_max + 2 - E_min ELSE 0

\* E_levels.size: the length of np.arange(E_min, E_max+1), 0 when E_min > E_max
Size == IF E_max + 1 - E_min > 0 THEN E_max + 1 - E_min ELSE 0

\* mutant: np.arange(E_max+1-E_min), levels that ignore the offset E_min
E_levels_zero_based == [i \in 0..(Size - 1) |-> i]

\* E_levels = np.arange(E_min, E_max+1)
E_levels == [i \in 0..(Size - 1) |-> E_min + i]

(* ---- the body of the trial loop (lines 46-55) ------------------------- *)

\* the values np.random.randint(E_levels.size, size=(N,)) can return
Candidates == [1..N -> 0..(Size - 1)]

RECURSIVE SumLevels(_)
\* sum(E_levels[E_select]): the energies at the drawn indices
SumLevels(sel) ==
    IF sel = <<>> THEN 0
    ELSE E_levels[Head(sel)] + SumLevels(Tail(sel))

RECURSIVE SumIndex(_)
SumIndex(sel) ==
    IF sel = <<>> THEN 0
    ELSE Head(sel) + SumIndex(Tail(sel))

\* mutant: sums the drawn indices instead of their energies
Missing_index(sel) == E_total - SumIndex(sel)

\* E_missing = E_total - sum(E_levels[E_select])   (line 47)
Missing(sel) == E_total - SumLevels(sel)

RECURSIVE ArgScan(_, _)
ArgScan(missing, i) ==
    IF i >= Size THEN <<>>
    ELSE (IF missing = E_levels[i] THEN <<i>> ELSE <<>>) \o ArgScan(missing, i + 1)

\* E_select_fill = np.argwhere(E_missing==E_levels): every matching index,
\* in ascending order (line 48)
ArgWhere(missing) == ArgScan(missing, 0)

\* mutant: truthiness of the matched index, false for index 0
Accepted_truthy(fill) == Len(fill) = 1 /\ fill[1] # 0

\* if E_select_fill.size == 1   (line 51)
Accepted(fill) == Len(fill) = 1

\* mutant: the closing molecule is not appended
Completed_open(sel, fill) == sel

\* np.concatenate((E_select, E_select_fill[0]))   (line 52)
Completed(sel, fill) == sel \o <<fill[1]>>

RECURSIVE Record(_, _)
\* for E_this in E_select: stat[E_this] = stat[E_this] + 1   (lines 53-54)
Record(st, sel) ==
    IF sel = <<>> THEN st
    ELSE Record([st EXCEPT ![Head(sel)] = @ + 1], Tail(sel))

\* mutant: the recording loop dedented out of the if, so a rejected
\* candidate is recorded as well
StatAfter_partial(st, sel, fill) ==
    IF Accepted(fill) THEN Record(st, Completed(sel, fill)) ELSE Record(st, sel)

\* stat after one iteration (lines 51-54)
StatAfter(st, sel, fill) ==
    IF Accepted(fill) THEN Record(st, Completed(sel, fill)) ELSE st

\* mutant: the increment dedented out of the if
CountAfter_always(c, fill) == c + 1

\* count after one iteration (lines 51, 55)
CountAfter(c, fill) == IF Accepted(fill) THEN c + 1 ELSE c

\* E_select after one iteration (lines 46, 52)
SelectAfter(sel, fill) == IF Accepted(fill) THEN Completed(sel, fill) ELSE sel

(* ---- sums over the histogram ------------------------------------------ *)

RECURSIVE SumTo(_, _)
\* sum of f[0..i-1]
SumTo(f, i) == IF i <= 0 THEN 0 ELSE f[i - 1] + SumTo(f, i - 1)

\* sum(stat)   (line 57)
SumStat(st) == SumTo(st, Size)

\* sum(np.multiply(stat,E_levels))   (line 60)
SumStatE(st) == SumTo([i \in 0..(Size - 1) |-> st[i] * E_levels[i]], Size)

\* sum(np.multiply(stat,E2_levels)), E2_levels = np.power(E_levels,2)   (lines 62-63)
SumStatE2(st) ==
    SumTo([i \in 0..(Size - 1) |-> st[i] * E_levels[i] * E_levels[i]], Size)

(* ---- values of the evaluation block ----------------------------------- *)

Unset == [kind |-> "unset", num |-> 0, den |-> 1]
NaN == [kind |-> "nan", num |-> 0, den |-> 1]
Inf == [kind |-> "inf", num |-> 0, den |-> 1]
Ratio(a, b) == [kind |-> "ratio", num |-> a, den |-> b]

\* a float64 division x / y of numpy: at y = 0 it yields nan (0/0) or inf
\* with a RuntimeWarning, never an exception
FloatDiv(a, b) ==
    IF b # 0 THEN Ratio(a, b) ELSE IF a = 0 THEN NaN ELSE Inf

\* pop = stat/sum(stat)   (line 57)
Pop(st) == [i \in 0..(Size - 1) |-> FloatDiv(st[i], SumStat(st))]

\* E_mol_avg = sum(np.multiply(pop,E_levels))   (line 61)
MolAvg(st) == FloatDiv(SumStatE(st), SumStat(st))

\* E_mol_std = np.sqrt(E2_mol_avg - E_mol_avg**2): here the variance under
\* the root, as a ratio   (lines 63-64)
MolVar(st) ==
    IF SumStat(st) = 0 THEN NaN
    ELSE Ratio(SumStatE2(st) * SumStat(st) - SumStatE(st) * SumStatE(st),
               SumStat(st) * SumStat(st))

\* line 60 divides by the Python int count.  The builtin sum of an empty
\* array is the Python int 0, and int / int 0 raises ZeroDivisionError;
\* the sum of a non-empty array is a numpy float64, whose division warns.
TotAvgRaises(c) == Size = 0 /\ c = 0

(* ---- the state after lines 30-42 -------------------------------------- *)

ZeroStat == [i \in 0..(Size - 1) |-> 0]

Run2Init == [k |-> 0, stat |-> ZeroStat, count |-> 0, pc |-> "loop"]

Init ==
    /\ Trials \in 0..MaxTrials
    /\ N \in -1..MaxN
    /\ E_total \in 0..MaxTotal
    /\ E_min \in 0..MaxLevel
    /\ E_max \in 0..MaxLevel
    /\ k = 0
    /\ count = 0
    /\ stat = ZeroStat
    /\ E_select = <<>>          \* not yet bound
    /\ E_missing = 0            \* not yet bound
    /\ E_select_fill = <<>>     \* not yet bound
    /\ pc = "loop"
    /\ err = "none"
    /\ pop = <<>>
    /\ E_tot_avg = Unset
    /\ E_mol_avg = Unset
    /\ E_mol_std = Unset
    /\ run2 = Run2Init

(* ---- the actions ------------------------------------------------------ *)

\* randint raises ValueError for a negative size and for an empty range
\* of values; with size=(0,) and an empty range the outcome depends on the
\* numpy release (empty array or ValueError), so both are possible
CanDraw == N >= 0 /\ (Size > 0 \/ N = 0)
CanRaise == N < 0 \/ Size = 0

\* one iteration of the trial loop (lines 45-55)
Trial ==
    /\ pc = "loop"
    /\ k < Trials
    /\ CanDraw
    /\ \E sel \in Candidates :
          LET missing == Missing(sel)
              fill == ArgWhere(missing)
          IN /\ E_missing' = missing
             /\ E_select_fill' = fill
             /\ E_select' = SelectAfter(sel, fill)
             /\ stat' = StatAfter(stat, sel, fill)
             /\ count' = CountAfter(count, fill)
    /\ k' = k + 1
    /\ UNCHANGED <<params, pc, err, outvars, run2>>

\* an iteration whose draw raises (line 46)
TrialCrash ==
    /\ pc = "loop"
    /\ k < Trials
    /\ CanRaise
    /\ pc' = "crashed"
    /\ err' = "ValueError"
    /\ UNCHANGED <<params, loopvars, outvars, run2>>

\* the evaluation after the loop (lines 57-69)
Finalize ==
    /\ pc = "loop"
    /\ k >= Trials
    /\ pop' = Pop(stat)
    /\ IF TotAvgRaises(count)
       THEN /\ pc' = "crashed"
            /\ err' = "ZeroDivisionError"
            /\ UNCHANGED <<E_tot_avg, E_mol_avg, E_mol_std>>
       ELSE /\ E_tot_avg' = FloatDiv(SumStatE(stat), count)
            /\ E_mol_avg' = MolAvg(stat)
            /\ E_mol_std' = MolVar(stat)
            /\ pc' = "done"
            /\ err' = "none"
    /\ UNCHANGED <<params, loopvars, run2>>

Next == Trial \/ TrialCrash \/ Finalize

Spec == Init /\ [][Next]_vars

(* ---- a second run of the script with the same parameters -------------- *)

Trial2 ==
    /\ run2.pc = "loop"
    /\ run2.k < Trials
    /\ CanDraw
    /\ \E sel \in Candidates :
          LET fill == ArgWhere(Missing(sel))
          IN run2' = [k |-> run2.k + 1,
                      stat |-> StatAfter(run2.stat, sel, fill),
                      count |-> CountAfter(run2.count, fill),
                      pc |-> "loop"]
    /\ UNCHANGED <<params, loopvars, pc, err, outvars>>

TrialCrash2 ==
    /\ run2.pc = "loop"
    /\ run2.k < Trials
    /\ CanRaise
    /\ run2' = [run2 EXCEPT !.pc = "crashed"]
    /\ UNCHANGED <<params, loopvars, pc, err, outvars>>

Finalize2 ==
    /\ run2.pc = "loop"
    /\ run2.k >= Trials
    /\ run2' = [run2 EXCEPT !.pc = IF TotAvgRaises(run2.count) THEN "crashed" ELSE "done"]
    /\ UNCHANGED <<params, loopvars, pc, err, outvars>>

NextPair == Trial \/ TrialCrash \/ Finalize \/ Trial2 \/ TrialCrash2 \/ Finalize2

SpecPair == Init /\ [][NextPair]_vars

(* ---- properties ------------------------------------------------------- *)

\* the closing value lies in the level space: the O(1) bounds check
InLevelSpace(m) == E_min <= m /\ m <= E_max

\* the last iteration accepted its candidate
LastAccepted == k > 0 /\ Len(E_select_fill) = 1

\* C1: for every accepted trial the energies of the N drawn molecules plus
\* the energy of the closing molecule (the matched index) sum to E_total
\* exactly, also when E_min # 0
C1_Conservation ==
    LastAccepted =>
        /\ Len(E_select) = N + 1
        /\ E_select[N + 1] = E_select_fill[1]
        /\ SumLevels(E_select) = E_total

C1_Witness ==
    /\ LastAccepted
    /\ E_min # 0
    /\ N = 2
    /\ E_select[1] # E_select[2]

\* C2: at every iteration boundary and at the end, the histogram buckets
\* sum to count * (N + 1)
C2_HistogramMass == SumStat(stat) = count * (N + 1)

C2_Witness == count = 2 /\ N = 2 /\ SumStat(stat) = 6

\* E_total lies outside the totals N + 1 molecules can have
Unreachable == E_total > (N + 1) * E_max \/ E_total < (N + 1) * E_min

\* C3: with an unreachable target no candidate is ever accepted: count is
\* 0 and every bucket is 0 after any number of trials
C3_UnreachableTarget ==
    Unreachable => (count = 0 /\ \A i \in DOMAIN stat : stat[i] = 0)

C3_Witness ==
    /\ Unreachable
    /\ N = 1 /\ E_min = 0 /\ E_max = 1 /\ E_total = 5
    /\ k = 2
    /\ pc = "done"

\* the parameters the validation is to refuse
InvalidParams == E_min > E_max \/ N < 1 \/ Trials < 1

\* C4: the evaluation with count = 0 never completes with results, it ends
\* in an error; stated for valid parameters, where count = 0 comes from
\* the trials alone
C4_ZeroCountIsError == (~InvalidParams /\ pc = "done") => count > 0

\* C5: with invalid parameters no trial is executed, the histogram and the
\* counter are never updated and the evaluation is never reached
C5_InvalidParamsStop ==
    InvalidParams =>
        /\ k = 0
        /\ count = 0
        /\ \A i \in DOMAIN stat : stat[i] = 0
        /\ pc # "done"
        /\ err # "ZeroDivisionError"

\* every candidate has its closing value in the level space
AllAcceptable == \A sel \in Candidates : InLevelSpace(Missing(sel))

\* C6: when every candidate has a closing value in the level space, every
\* trial is accepted, so count = Trials after the loop
C6_FullAcceptance ==
    AllAcceptable =>
        /\ count = k
        /\ (pc = "done" => count = Trials)

C6_Witness ==
    /\ N = 1 /\ E_min = 0 /\ E_max = 2 /\ E_total = 2
    /\ Trials = 2
    /\ pc = "done"
    /\ count = 2

\* C7: two runs with identical parameters end with identical histograms
C7_Determinism ==
    (pc = "done" /\ run2.pc = "done") => (stat = run2.stat /\ count = run2.count)

\* C8: for E_min <= E_max and every candidate, the array-wide search
\* accepts exactly when E_min <= missing <= E_max, its match is the index
\* missing - E_min, and it never finds more than one match
C8_SearchIsBoundsCheck ==
    (E_min <= E_max /\ N >= 0) =>
        \A sel \in Candidates :
            LET m == Missing(sel)
                fill == ArgWhere(m)
            IN /\ Len(fill) <= 1
               /\ Accepted(fill) <=> InLevelSpace(m)
               /\ Accepted(fill) => fill[1] = m - E_min

C8_Witness ==
    /\ LastAccepted
    /\ E_min = 1 /\ E_max = 2
    /\ E_select_fill[1] = 1
    /\ E_missing = 2

\* C9: a trial whose closing value is not in the level space leaves every
\* bucket and the counter as they were; the histogram and the counter
\* change only in an accepted trial, and no bucket ever decreases
C9_RejectedChangesNothing ==
    [][ /\ (k' = k + 1 /\ ~InLevelSpace(E_missing'))
            => (stat' = stat /\ count' = count)
        /\ (stat' # stat \/ count' # count)
            => (k' = k + 1 /\ InLevelSpace(E_missing') /\ count' = count + 1)
        /\ \A i \in DOMAIN stat : stat'[i] >= stat[i]
        /\ count' >= count ]_vars

C9_Witness ==
    /\ k = 2
    /\ count = 1
    /\ ~InLevelSpace(E_missing)
    /\ Len(E_select_fill) = 0

\* C10: the energy-weighted histogram sum equals count * E_total, so with
\* count > 0 the reported E_tot_avg equals E_total exactly
C10_EnergyWeighted ==
    /\ SumStatE(stat) = count * E_total
    /\ (pc = "done" /\ count > 0)
           => (E_tot_avg.kind = "ratio" /\ E_tot_avg.num = E_total * E_tot_avg.den)

C10_Witness ==
    /\ pc = "done"
    /\ count = 2
    /\ E_min = 1
    /\ E_total = 4
    /\ E_tot_avg = Ratio(8, 2)

====
